---- MODULE Spec2Model ----
(***************************************************************************)
(* A model of the lost-media catalogue API (views.py over models.py).      *)
(*                                                                         *)
(* The relational store is the state: shows, genre links, status logs,     *)
(* articles and media files.  Every request handler is one action that     *)
(* reads or writes the store and leaves its HTTP response in `resp`.       *)
(***************************************************************************)
EXTENDS Integers, Sequences, FiniteSets, TLC

VARIABLES
    shows,          \* Master_Shows rows: [show_id, release_year], with
                    \* title where a request reads it
    genres,         \* list_genre rows: [genre_id, genre_name]
    genreLinks,     \* Show_Genre_Mapping rows: [show_id, genre_id]
    statusLogs,     \* Media_StatusLog rows: [show_id, recovery_status]
    popularity,     \* MediaPopularity rows: [id, search_count]
    spCalls,        \* the keywords SP_Search_By_Keyword was executed with
    articles,       \* articles rows: [id, status, user, category, show]
    nextArticleId,  \* the AutoField sequence of articles.id
    mediaFiles,     \* media_files rows: [id, article, uploaded_by]
    nextMediaId,    \* the AutoField sequence of media_files.id
    userRows,       \* users rows: the users that are stored
    statsReq,       \* the /shows/stats request in flight, between its queries
    resp            \* the response to the last request

vars == <<shows, genres, genreLinks, statusLogs, popularity, spCalls,
          articles, nextArticleId, mediaFiles, nextMediaId, userRows,
          statsReq, resp>>

\* The catalogue database: its tables and the calls of its stored procedure
showVars == <<shows, genres, genreLinks, statusLogs, popularity, spCalls>>
articleVars == <<articles, nextArticleId, mediaFiles, nextMediaId>>

\* ------------------------------------------------------------------------
\* Bounds of the model
\* ------------------------------------------------------------------------
MaxShows == 2
MaxStatShows == 32
MaxArticles == 2
MaxMedia == 2
MaxFillerGenres == 10
MaxCoreGenres == 2
MaxLinkedShows == 2
MaxFillerShows == 10
MaxRankedShows == 2
MaxSearchCount == 2
MaxSpCalls == 3
MaxListedShows == 3
MaxResults == 2

\* ------------------------------------------------------------------------
\* Values
\* ------------------------------------------------------------------------
\* SQL NULL / Python None in an integer column or parameter
NULL == -1

\* users rows, each with its role
Users == {"admin", "c1", "c2", "viewer"}

\* No request has been answered yet
NoResponse == [op |-> "none"]

\* No /shows/stats request is between its queries
NoRequest == [pc |-> "idle"]

\* ------------------------------------------------------------------------
\* Strings that the code inspects character by character
\* ------------------------------------------------------------------------
\* str.lower() on the characters the model uses
LowerChar(c) ==
    CASE c = "C" -> "c"
      [] c = "D" -> "d"
      [] OTHER -> c

Lower(s) == [i \in 1..Len(s) |-> LowerChar(s[i])]

\* t occurs in s as a contiguous substring
Contains(s, t) ==
    \E i \in 0..(Len(s) - Len(t)) : SubSeq(s, i + 1, i + Len(t)) = t

\* Django's __icontains lookup: case-insensitive containment
IContains(s, t) == Contains(Lower(s), Lower(t))

\* ------------------------------------------------------------------------
\* Shows, genres and status logs (models.py)
\* ------------------------------------------------------------------------
\* list_genre rows: two genres whose names both contain "comedy"
ListGenre ==
    { [genre_id |-> 1, genre_name |-> <<"C","o","m","e","d","y">>],
      [genre_id |-> 2,
       genre_name |-> <<"D","a","r","k"," ","C","o","m","e","d","y">>] }

GenreIds == { g.genre_id : g \in ListGenre }

\* MediaStatusLog.recovery_status choices
RecoveryStatuses == {"Founded", "Fully Lost", "Partial Found"}

\* MasterShows.release_year: a nullable integer
ReleaseYears == {NULL, 1}

\* A store the ingestion process can leave behind: show ids 1..n, at most one
\* status log per show (one-to-one, primary key), unique (show, genre) links,
\* every log and link referencing an existing show and genre.
ShowRows(n, yearOf) ==
    { [show_id |-> i, release_year |-> yearOf[i]] : i \in 1..n }

\* MasterShows.title values
Titles == { <<"a">>, <<"a","b">>, <<"b">> }

\* The same rows with MasterShows.title
TitledShowRows(n, yearOf, titleOf) ==
    { [show_id |-> i, title |-> titleOf[i], release_year |-> yearOf[i]] :
        i \in 1..n }

StatusLogRows(n, logOf) ==
    { [show_id |-> i, recovery_status |-> logOf[i]] :
        i \in { j \in 1..n : logOf[j] \in RecoveryStatuses } }

GenreLinkRows(n, linksOf) ==
    { [show_id |-> i, genre_id |-> g] :
        <<i, g>> \in { p \in (1..n) \X GenreIds : p[2] \in linksOf[p[1]] } }

\* ------------------------------------------------------------------------
\* MasterShowsViewSet.get_queryset (views.py 97-129)
\* ------------------------------------------------------------------------
\* A lazily built queryset over Master_Shows: the WHERE terms collected so
\* far and the DISTINCT flag.  It is evaluated once, when the list is served.
AllShows ==
    [gte |-> NULL, lte |-> NULL, genre |-> <<>>, distinct |-> FALSE,
     excludeLogged |-> FALSE, status |-> ""]

\* release_year__gt in place of release_year__gte
FilterYearFromExclusive(q, year_from) == [q EXCEPT !.gte = year_from + 1]

\* queryset.filter(release_year__gte=year_from)
FilterYearFrom(q, year_from) == [q EXCEPT !.gte = year_from]

\* queryset.filter(release_year__lte=year_to)
FilterYearTo(q, year_to) == [q EXCEPT !.lte = year_to]

\* The genre filter without .distinct()
FilterGenreNoDistinct(q, genre) == [q EXCEPT !.genre = genre]

\* queryset.filter(showgenremapping__genre__genre_name__icontains=genre)
\*         .distinct()
FilterGenre(q, genre) == [q EXCEPT !.genre = genre, !.distinct = TRUE]

\* str.lower() on the status tokens the model sends
StrLower(s) ==
    CASE s = "Unknown" -> "unknown"
      [] s = "Founded" -> "founded"
      [] s = "Fully Lost" -> "fully lost"
      [] s = "Partial Found" -> "partial found"
      [] OTHER -> s

\* The status filter as a literal column match for every token
FilterStatusColumnMatch(q, recovery_status) ==
    [q EXCEPT !.status = recovery_status]

\* 'unknown' excludes the shows that have a status log; any other token joins
\* Media_StatusLog on recovery_status = token
FilterStatus(q, recovery_status) ==
    IF StrLower(recovery_status) = "unknown"
    THEN [q EXCEPT !.excludeLogged = TRUE]
    ELSE [q EXCEPT !.status = recovery_status]

\* get_queryset: each parameter that is present (truthy) adds its filter
ShowsQueryset(p) ==
    LET q0 == AllShows
        q1 == IF p.year_from # NULL THEN FilterYearFrom(q0, p.year_from) ELSE q0
        q2 == IF p.year_to # NULL THEN FilterYearTo(q1, p.year_to) ELSE q1
        q3 == IF p.genre # <<>> THEN FilterGenre(q2, p.genre) ELSE q2
        q4 == IF p.status # "" THEN FilterStatus(q3, p.status) ELSE q3
    IN  q4

GenreName(g) == (CHOOSE r \in genres : r.genre_id = g).genre_name

\* The number of rows the SQL join yields for show s, before DISTINCT: one per
\* matching genre link (INNER JOIN on the mapping) and per matching status log
\* (INNER JOIN on the one-to-one log), none when a WHERE term rejects the show.
\* A NULL release_year satisfies neither >= nor <=.
JoinRows(q, s) ==
    LET yearOk ==
            /\ q.gte # NULL => (s.release_year # NULL /\ s.release_year >= q.gte)
            /\ q.lte # NULL => (s.release_year # NULL /\ s.release_year <= q.lte)
        genreRows ==
            IF q.genre = <<>> THEN 1
            ELSE Cardinality({ l \in genreLinks :
                                 /\ l.show_id = s.show_id
                                 /\ IContains(GenreName(l.genre_id), q.genre) })
        logged == \E l \in statusLogs : l.show_id = s.show_id
        statusRows ==
            IF q.status = "" THEN 1
            ELSE Cardinality({ l \in statusLogs :
                                 /\ l.show_id = s.show_id
                                 /\ l.recovery_status = q.status })
    IN  IF yearOk /\ ~(q.excludeLogged /\ logged)
        THEN genreRows * statusRows
        ELSE 0

\* Evaluating the queryset: the bag of show ids in the result, as a function
\* from the show ids that occur to the number of times each occurs.
Evaluate(q) ==
    LET n(s) == IF q.distinct /\ JoinRows(q, s) > 0 THEN 1 ELSE JoinRows(q, s)
        hit == { s \in shows : n(s) > 0 }
    IN  [id \in { s.show_id : s \in hit } |->
            n(CHOOSE s \in hit : s.show_id = id)]

\* ------------------------------------------------------------------------
\* Requests on /shows
\* ------------------------------------------------------------------------
YearFromParams == {NULL, 1}
YearToParams == {NULL, 1}
GenreParams == { <<>>, <<"c","o","m","e","d","y">>, <<"D","a","r","k">> }
StatusParams == {"", "unknown", "Unknown"} \cup RecoveryStatuses

\* The ordering parameter is the list of its comma-separated terms, a term
\* its leading '-', if any, followed by the field name; <<>> when absent
NoOrdering == <<>>

ShowParams ==
    [year_from : YearFromParams, year_to : YearToParams,
     genre : GenreParams, status : StatusParams, ordering : {NoOrdering}]

\* ------------------------------------------------------------------------
\* OrderingFilter on /shows (views.py 87-90)
\* ------------------------------------------------------------------------
\* ordering_fields = ['release_year', 'title']
OrderingFields == {"release_year", "title"}

\* A default that orders by title
DefaultOrderingByTitle == << <<"title">> >>

\* ordering = ['-release_year']
DefaultOrdering == << <<"-", "release_year">> >>

TermDescending(term) == Head(term) = "-"

TermField(term) == IF TermDescending(term) THEN term[2] ELSE term[1]

\* OrderingFilter.remove_invalid_fields: the terms whose field, without the
\* '-', is one of ordering_fields
RemoveInvalidFields(terms) ==
    SelectSeq(terms, LAMBDA term : TermField(term) \in OrderingFields)

\* OrderingFilter.get_ordering: the valid terms of the parameter, or the
\* view's default when the parameter is absent or no term of it is valid
GetOrdering(ordering) ==
    IF ordering # NoOrdering /\ RemoveInvalidFields(ordering) # <<>>
    THEN RemoveInvalidFields(ordering)
    ELSE DefaultOrdering

\* The collation rank of the characters the titles use
CharRank(c) ==
    CASE c = "a" -> 1
      [] c = "b" -> 2

RECURSIVE TitleLess(_, _)
\* s sorts before t: the first character that differs decides, and a proper
\* prefix sorts first
TitleLess(s, t) ==
    IF t = <<>> THEN FALSE
    ELSE IF s = <<>> THEN TRUE
    ELSE IF Head(s) = Head(t) THEN TitleLess(Tail(s), Tail(t))
    ELSE CharRank(Head(s)) < CharRank(Head(t))

\* Show x sorts before show y on the column: SQL Server puts NULL before
\* every value, as NULL = -1 is before every year
KeyLess(field, x, y) ==
    IF field = "title" THEN TitleLess(x.title, y.title)
    ELSE x[field] < y[field]

RECURSIVE Precedes(_, _, _)
\* ORDER BY terms allows show x before show y
Precedes(terms, x, y) ==
    IF terms = <<>> THEN TRUE
    ELSE LET term == Head(terms)
         IN  IF KeyLess(TermField(term), x, y) THEN ~TermDescending(term)
             ELSE IF KeyLess(TermField(term), y, x) THEN TermDescending(term)
             ELSE Precedes(Tail(terms), x, y)

RECURSIVE OrderBy(_, _)
\* queryset.order_by(*terms) over the rows of a result: every sequence the
\* database may answer, rows that the terms do not tell apart in any order
OrderBy(rows, terms) ==
    IF rows = {} THEN { <<>> }
    ELSE LET first == { r \in rows :
                          \A o \in rows : Precedes(terms, r.show, o.show) }
         IN  UNION { { <<r>> \o rest : rest \in OrderBy(rows \ {r}, terms) } :
                       r \in first }

\* The rows of an evaluated queryset, a show as many times as it occurs
QuerysetRows(bag) ==
    { [show |-> s, copy |-> k] :
        <<s, k>> \in { x \in shows \X (1..Cardinality(genreLinks) + 1) :
                        /\ x[1].show_id \in DOMAIN bag
                        /\ x[2] <= bag[x[1].show_id] } }

\* filter_queryset(get_queryset()): the show ids of the list in the order of
\* the response (a page holds 20 shows, more than the model stores)
OrderedResults(p) ==
    { [i \in 1..Len(rows) |-> rows[i].show.show_id] :
        rows \in OrderBy(QuerysetRows(Evaluate(ShowsQueryset(p))),
                         GetOrdering(p.ordering)) }

\* GET /shows: the list action of the read-only viewset.  The store is not
\* written by it, so one request per behaviour covers every request.
ShowsList(p) ==
    /\ resp = NoResponse
    /\ \E results \in OrderedResults(p) :
          resp' = [op |-> "shows.list", params |-> p,
                   rows |-> Evaluate(ShowsQueryset(p)),
                   results |-> results]
    /\ UNCHANGED <<userRows, statsReq, showVars, articleVars>>

InitShows ==
    /\ \E n \in 0..MaxShows :
         \E yearOf \in [1..n -> ReleaseYears],
            logOf \in [1..n -> RecoveryStatuses \cup {"none"}],
            linksOf \in [1..n -> SUBSET GenreIds] :
              /\ shows = ShowRows(n, yearOf)
              /\ statusLogs = StatusLogRows(n, logOf)
              /\ genreLinks = GenreLinkRows(n, linksOf)
    /\ genres = ListGenre
    /\ popularity = {}
    /\ spCalls = <<>>
    /\ articles = {}
    /\ nextArticleId = 1
    /\ mediaFiles = {}
    /\ nextMediaId = 1
    /\ userRows = Users
    /\ statsReq = NoRequest
    /\ resp = NoResponse

NextShows == \E p \in ShowParams : ShowsList(p)

SpecShows == InitShows /\ [][NextShows]_vars

\* The terms of the ordering parameters sent: the two ordering fields in
\* both directions, a column that is not an ordering field, and a name that
\* is no column
OrderingTerms ==
    { <<"title">>, <<"-", "title">>, <<"release_year">>,
      <<"-", "release_year">>, <<"show_id">>, <<"-", "bogus">> }

\* No parameter, one term, or an invalid term followed by a valid one
OrderingParams ==
    {NoOrdering} \cup { <<term>> : term \in OrderingTerms }
                 \cup { << <<"bogus">>, <<"title">> >> }

OrderedShowParams ==
    [year_from : {NULL}, year_to : {NULL}, genre : {<<>>}, status : {""},
     ordering : OrderingParams]

OrderedYears == {NULL, 1, 2}

\* Stores of up to MaxListedShows shows with any titles and release years,
\* listed without filters under every ordering parameter
InitOrdering ==
    /\ \E n \in 0..MaxListedShows :
         \E yearOf \in [1..n -> OrderedYears], titleOf \in [1..n -> Titles] :
              shows = TitledShowRows(n, yearOf, titleOf)
    /\ genres = ListGenre
    /\ genreLinks = {}
    /\ statusLogs = {}
    /\ popularity = {}
    /\ spCalls = <<>>
    /\ articles = {}
    /\ nextArticleId = 1
    /\ mediaFiles = {}
    /\ nextMediaId = 1
    /\ userRows = Users
    /\ statsReq = NoRequest
    /\ resp = NoResponse

NextOrdering == \E p \in OrderedShowParams : ShowsList(p)

SpecOrdering == InitOrdering /\ [][NextOrdering]_vars

YearBounds == {NULL, 1, 2, 3}

YearRangeParams ==
    [year_from : YearBounds, year_to : YearBounds, genre : {<<>>},
     status : {""}, ordering : {NoOrdering}]

\* Stores of up to MaxListedShows shows with any release years, one of them
\* unknown, listed under every pair of year bounds
InitYears ==
    /\ \E n \in 0..MaxListedShows :
         \E yearOf \in [1..n -> YearBounds] : shows = ShowRows(n, yearOf)
    /\ genres = ListGenre
    /\ genreLinks = {}
    /\ statusLogs = {}
    /\ popularity = {}
    /\ spCalls = <<>>
    /\ articles = {}
    /\ nextArticleId = 1
    /\ mediaFiles = {}
    /\ nextMediaId = 1
    /\ userRows = Users
    /\ statsReq = NoRequest
    /\ resp = NoResponse

NextYears == \E p \in YearRangeParams : ShowsList(p)

SpecYears == InitYears /\ [][NextYears]_vars

\* ------------------------------------------------------------------------
\* Users, roles, categories and articles (models.py)
\* ------------------------------------------------------------------------
\* User.role.name
RoleName(u) ==
    CASE u = "admin" -> "Admin"
      [] u \in {"c1", "c2"} -> "Contributor"
      [] OTHER -> "User"

\* request.user of a request that carries no credentials
Anonymous == "anonymous"

Callers == Users \cup {Anonymous}

\* The permission class AllowAny: no caller is turned away
AllowAny(caller) == TRUE

\* request.user.is_authenticated
IsAuthenticated(caller) == caller \in Users

\* categories rows
Categories ==
    { [id |-> 1, slug |-> "news"], [id |-> 2, slug |-> "lore"] }

CategoryIds == { c.id : c \in Categories }

\* Article.STATUS_CHOICES
ArticleStatuses == {"draft", "published", "archived"}

\* Article.show: a nullable reference to the one show of the article store
ArticleShows == {NULL, 1}

\* ------------------------------------------------------------------------
\* ArticleViewSet.get_queryset (views.py 307-333)
\* ------------------------------------------------------------------------
\* The visibility filter that leaves the anonymous caller unfiltered
VisibleToAnonymousUnfiltered(caller, a) ==
    IF ~IsAuthenticated(caller) THEN TRUE
    ELSE IF RoleName(caller) = "Contributor"
         THEN a.status = "published" \/ a.user = caller
         ELSE IF RoleName(caller) # "Admin"
              THEN a.status = "published"
              ELSE TRUE

\* The visibility filter that treats a Contributor like an Admin
VisibleToContributorUnfiltered(caller, a) ==
    IF ~IsAuthenticated(caller) THEN a.status = "published"
    ELSE IF RoleName(caller) \in {"Contributor", "Admin"}
         THEN TRUE
         ELSE a.status = "published"

\* The visibility filter: published only for an anonymous caller, published
\* or own for a Contributor, everything for an Admin, published only for any
\* other role
VisibleTo(caller, a) ==
    IF ~IsAuthenticated(caller) THEN a.status = "published"
    ELSE IF RoleName(caller) = "Contributor"
         THEN a.status = "published" \/ a.user = caller
         ELSE IF RoleName(caller) # "Admin"
              THEN a.status = "published"
              ELSE TRUE

CategoryOfSlug(slug) == { c.id : c \in { d \in Categories : d.slug = slug } }

\* get_queryset: the visibility filter, then the category and show_id
\* filters when the parameter is present
ArticleQueryset(caller, p) ==
    { a \in articles :
        /\ VisibleTo(caller, a)
        /\ p.category # "" => a.category \in CategoryOfSlug(p.category)
        /\ p.show_id # NULL => a.show = p.show_id }

NoFilters == [category |-> "", show_id |-> NULL]

ArticleParams == [category : {"", "news"}, show_id : {NULL, 1}]

Ids(rows) == { a.id : a \in rows }

\* GET /articles: the first page of the queryset (page_size 20, more than
\* the stores here hold).  A list request writes nothing, so one request per
\* behaviour covers every request.
ArticleList(caller, p) ==
    /\ resp = NoResponse
    /\ resp' = [op |-> "articles.list", caller |-> caller, params |-> p,
                code |-> 200, ids |-> Ids(ArticleQueryset(caller, p))]
    /\ UNCHANGED <<userRows, statsReq, showVars, articleVars>>

\* GET /articles/my_articles (views.py 346-356)
MyArticles(caller, p) ==
    /\ resp = NoResponse
    /\ resp' = IF ~IsAuthenticated(caller)
               THEN [op |-> "articles.my_articles", caller |-> caller,
                     params |-> p, code |-> 401, ids |-> {}]
               ELSE [op |-> "articles.my_articles", caller |-> caller,
                     params |-> p, code |-> 200,
                     ids |-> Ids({ a \in ArticleQueryset(caller, p) :
                                     a.user = caller })]
    /\ UNCHANGED <<userRows, statsReq, showVars, articleVars>>

\* GET /categories/{slug}/articles (views.py 268-281): get_object answers
\* 404 for an unknown slug; the listing is published-only for every caller
CategoryArticles(caller, slug) ==
    /\ resp = NoResponse
    /\ resp' = IF CategoryOfSlug(slug) = {}
               THEN [op |-> "categories.articles", caller |-> caller,
                     params |-> [category |-> slug, show_id |-> NULL],
                     code |-> 404, ids |-> {}]
               ELSE [op |-> "categories.articles", caller |-> caller,
                     params |-> [category |-> slug, show_id |-> NULL],
                     code |-> 200,
                     ids |-> Ids({ a \in articles :
                                     /\ a.category \in CategoryOfSlug(slug)
                                     /\ a.status = "published" })]
    /\ UNCHANGED <<userRows, statsReq, showVars, articleVars>>

\* The article stores of n articles with ids 1..n, written by any user
ArticleAuthors == Users

ArticleRows(n, f) ==
    { [id |-> i, status |-> f[i].status, user |-> f[i].user,
       category |-> f[i].category, show |-> f[i].show] : i \in 1..n }

InitVisibility ==
    /\ shows = ShowRows(1, [i \in {1} |-> NULL])
    /\ genres = ListGenre
    /\ genreLinks = {}
    /\ statusLogs = {}
    /\ popularity = {}
    /\ spCalls = <<>>
    /\ \E n \in 0..MaxArticles :
         \E f \in [1..n -> [status : ArticleStatuses, user : ArticleAuthors,
                            category : CategoryIds, show : ArticleShows]] :
           /\ articles = ArticleRows(n, f)
           /\ nextArticleId = n + 1
    /\ mediaFiles = {}
    /\ nextMediaId = 1
    /\ userRows = Users
    /\ statsReq = NoRequest
    /\ resp = NoResponse

NextVisibility ==
    \/ \E caller \in Callers, p \in ArticleParams : ArticleList(caller, p)
    \/ \E caller \in Callers, p \in ArticleParams : MyArticles(caller, p)
    \/ \E caller \in Callers, slug \in {"news", "lore", "tapes"} :
          CategoryArticles(caller, slug)

SpecVisibility == InitVisibility /\ [][NextVisibility]_vars

\* ------------------------------------------------------------------------
\* UserViewSet (views.py 59-75)
\* ------------------------------------------------------------------------
\* A queryset that is not narrowed to the caller
UserQuerysetAll(caller) == userRows

\* UserViewSet.get_queryset: every user for an Admin, the caller alone for
\* anyone else
UserQueryset(caller) ==
    IF RoleName(caller) = "Admin"
    THEN userRows
    ELSE { u \in userRows : u = caller }

\* The response of a user endpoint: its status code and the users whose
\* records its body holds
UserResponse(op, caller, id, code, users) ==
    [op |-> op, caller |-> caller, id |-> id, code |-> code, users |-> users]

\* GET /users: permission_classes = [IsAuthenticated] turns the anonymous
\* caller away before the queryset is built
UsersList(caller) ==
    /\ resp = NoResponse
    /\ resp' = IF ~IsAuthenticated(caller)
               THEN UserResponse("users.list", caller, "", 401, {})
               ELSE UserResponse("users.list", caller, "", 200,
                                 UserQueryset(caller))
    /\ UNCHANGED <<userRows, statsReq, showVars, articleVars>>

\* GET /users/{id}: get_object looks the id up in get_queryset
UsersRetrieve(caller, id) ==
    /\ resp = NoResponse
    /\ resp' = IF ~IsAuthenticated(caller)
               THEN UserResponse("users.retrieve", caller, id, 401, {})
               ELSE IF id \notin UserQueryset(caller)
               THEN UserResponse("users.retrieve", caller, id, 404, {})
               ELSE UserResponse("users.retrieve", caller, id, 200, {id})
    /\ UNCHANGED <<userRows, statsReq, showVars, articleVars>>

\* GET /users/me: the serialized request.user
UsersMe(caller) ==
    /\ resp = NoResponse
    /\ resp' = IF ~IsAuthenticated(caller)
               THEN UserResponse("users.me", caller, "", 401, {})
               ELSE UserResponse("users.me", caller, "", 200, {caller})
    /\ UNCHANGED <<userRows, statsReq, showVars, articleVars>>

\* Any set of stored users; no other table matters to the user endpoints
InitUsers ==
    /\ userRows \in SUBSET Users
    /\ shows = {}
    /\ genres = ListGenre
    /\ genreLinks = {}
    /\ statusLogs = {}
    /\ popularity = {}
    /\ spCalls = <<>>
    /\ articles = {}
    /\ nextArticleId = 1
    /\ mediaFiles = {}
    /\ nextMediaId = 1
    /\ statsReq = NoRequest
    /\ resp = NoResponse

\* The requests of the stored users, who authenticate, and of the anonymous
\* caller, for any user id
NextUsers ==
    \/ \E caller \in userRows \cup {Anonymous} : UsersList(caller)
    \/ \E caller \in userRows \cup {Anonymous}, id \in Users :
          UsersRetrieve(caller, id)
    \/ \E caller \in userRows \cup {Anonymous} : UsersMe(caller)

SpecUsers == InitUsers /\ [][NextUsers]_vars

\* ------------------------------------------------------------------------
\* Article and media-file writes (views.py 288-344, 394-417)
\* ------------------------------------------------------------------------
\* The callers of the write requests: nobody, the Admin, two Contributors
WriteCallers == {Anonymous, "admin", "c1", "c2"}

\* The user value a request body may carry ("" when it carries none)
BodyUsers == {"", "admin", "c1"}

\* The request bodies of article create and update
ArticleBodies ==
    [status : ArticleStatuses, category : {1}, show : {NULL}, user : BodyUsers]

\* The bodies that publish at once and name no user
PublishedBodies == { b \in ArticleBodies : b.status = "published" /\ b.user = "" }

\* ArticleCreateUpdateSerializer: the fields of the body that reach
\* validated_data.  The author is not among them.
SerializerValidatedData(body) ==
    [status |-> body.status, category |-> body.category, show |-> body.show]

\* The author taken from the request body when it names one
PerformCreateUserFromBody(caller, body) ==
    [status |-> SerializerValidatedData(body).status,
     category |-> SerializerValidatedData(body).category,
     show |-> SerializerValidatedData(body).show,
     user |-> IF body.user # "" THEN body.user ELSE caller]

\* perform_create: serializer.save(user=self.request.user)
PerformCreate(caller, body) ==
    [status |-> SerializerValidatedData(body).status,
     category |-> SerializerValidatedData(body).category,
     show |-> SerializerValidatedData(body).show,
     user |-> caller]

\* The response to a write request: its status code, the id in its URL (or
\* of the row it created) and the user value its body carried
WriteResponse(op, caller, id, code, body_user) ==
    [op |-> op, caller |-> caller, id |-> id, code |-> code,
     body_user |-> body_user]

\* POST /articles.  IsAuthenticatedOrReadOnly turns an anonymous write away.
ArticleCreate(caller, body) ==
    IF ~IsAuthenticated(caller)
    THEN /\ resp' = WriteResponse("articles.create", caller, 0, 401, body.user)
         /\ UNCHANGED <<userRows, statsReq, showVars, articleVars>>
    ELSE /\ nextArticleId <= MaxArticles
         /\ LET data == PerformCreate(caller, body)
            IN  articles' = articles \cup
                    { [id |-> nextArticleId, status |-> data.status,
                       user |-> data.user, category |-> data.category,
                       show |-> data.show] }
         /\ nextArticleId' = nextArticleId + 1
         /\ resp' = WriteResponse("articles.create", caller, nextArticleId,
                                  201, body.user)
         /\ UNCHANGED <<userRows, statsReq, showVars, mediaFiles, nextMediaId>>

\* get_object: the row with this id in the caller's queryset, if any
GetObject(caller, id) ==
    { a \in ArticleQueryset(caller, NoFilters) : a.id = id }

\* perform_update's test: the author and an Admin pass; for anyone else it
\* raises the built-in PermissionError
UpdatePermitted(caller, instance) ==
    ~(instance.user # caller /\ RoleName(caller) # "Admin")

\* serializer.save() on update: the validated fields overwrite the row
UpdatedRow(instance, body) ==
    [instance EXCEPT !.status = SerializerValidatedData(body).status,
                     !.category = SerializerValidatedData(body).category,
                     !.show = SerializerValidatedData(body).show]

\* PUT/PATCH /articles/{id}.  The PermissionError perform_update raises is
\* no REST-framework exception, so it leaves the view unhandled: 500.
ArticleUpdate(caller, id, body) ==
    IF ~IsAuthenticated(caller)
    THEN /\ resp' = WriteResponse("articles.update", caller, id, 401, body.user)
         /\ UNCHANGED <<userRows, statsReq, showVars, articleVars>>
    ELSE IF GetObject(caller, id) = {}
    THEN /\ resp' = WriteResponse("articles.update", caller, id, 404, body.user)
         /\ UNCHANGED <<userRows, statsReq, showVars, articleVars>>
    ELSE LET instance == CHOOSE a \in GetObject(caller, id) : TRUE
         IN  IF ~UpdatePermitted(caller, instance)
             THEN /\ resp' = WriteResponse("articles.update", caller, id,
                                           500, body.user)
                  /\ UNCHANGED <<userRows, statsReq, showVars, articleVars>>
             ELSE /\ articles' = (articles \ {instance}) \cup
                                     {UpdatedRow(instance, body)}
                  /\ resp' = WriteResponse("articles.update", caller, id,
                                           200, body.user)
                  /\ UNCHANGED <<userRows, statsReq, showVars, nextArticleId, mediaFiles,
                                 nextMediaId>>

\* No media file goes with the article: the delete does not cascade
NoMediaOf(id) == {}

\* The media files attached to an article
MediaOf(id) == { m \in mediaFiles : m.article = id }

\* DELETE /articles/{id}: the viewset keeps ModelViewSet's destroy, which
\* deletes what get_object returns; media_files rows go with their article
\* (on_delete=CASCADE).
ArticleDestroy(caller, id) ==
    IF ~IsAuthenticated(caller)
    THEN /\ resp' = WriteResponse("articles.destroy", caller, id, 401, "")
         /\ UNCHANGED <<userRows, statsReq, showVars, articleVars>>
    ELSE IF GetObject(caller, id) = {}
    THEN /\ resp' = WriteResponse("articles.destroy", caller, id, 404, "")
         /\ UNCHANGED <<userRows, statsReq, showVars, articleVars>>
    ELSE LET instance == CHOOSE a \in GetObject(caller, id) : TRUE
         IN  /\ articles' = articles \ {instance}
             /\ mediaFiles' = mediaFiles \ MediaOf(id)
             /\ resp' = WriteResponse("articles.destroy", caller, id, 204, "")
             /\ UNCHANGED <<userRows, statsReq, showVars, nextArticleId, nextMediaId>>

\* The bodies of POST /media-files: the article and, possibly, an uploader
MediaBodies == [article : 1..MaxArticles, uploaded_by : BodyUsers]

\* The uploader taken from the body when the body names one
MediaUploaderFromBody(caller, body) ==
    IF body.uploaded_by # "" THEN body.uploaded_by ELSE caller

\* perform_create: serializer.save(uploaded_by=self.request.user); the
\* keyword overrides whatever the validated data holds under that name
MediaUploader(caller, body) == caller

\* POST /media-files.  The article named in the body must exist.
MediaFileCreate(caller, body) ==
    IF ~IsAuthenticated(caller)
    THEN /\ resp' = WriteResponse("media-files.create", caller, 0, 401,
                                  body.uploaded_by)
         /\ UNCHANGED <<userRows, statsReq, showVars, articleVars>>
    ELSE IF body.article \notin Ids(articles)
    THEN /\ resp' = WriteResponse("media-files.create", caller, 0, 400,
                                  body.uploaded_by)
         /\ UNCHANGED <<userRows, statsReq, showVars, articleVars>>
    ELSE /\ nextMediaId <= MaxMedia
         /\ mediaFiles' = mediaFiles \cup
                { [id |-> nextMediaId, article |-> body.article,
                   uploaded_by |-> MediaUploader(caller, body)] }
         /\ nextMediaId' = nextMediaId + 1
         /\ resp' = WriteResponse("media-files.create", caller, nextMediaId,
                                  201, body.uploaded_by)
         /\ UNCHANGED <<userRows, statsReq, showVars, articles, nextArticleId>>

\* MediaFileSerializer: the fields of the body that reach validated_data on
\* an update.  The uploader is not among them.
MediaSerializerValidatedData(body) == [article |-> body.article]

\* PUT/PATCH /media-files/{id}: ModelViewSet's update, open to every
\* authenticated caller.  The article named in the body must exist.
MediaFileUpdate(caller, id, body) ==
    IF ~IsAuthenticated(caller)
    THEN /\ resp' = WriteResponse("media-files.update", caller, id, 401,
                                  body.uploaded_by)
         /\ UNCHANGED <<userRows, statsReq, showVars, articleVars>>
    ELSE IF \A m \in mediaFiles : m.id # id
    THEN /\ resp' = WriteResponse("media-files.update", caller, id, 404,
                                  body.uploaded_by)
         /\ UNCHANGED <<userRows, statsReq, showVars, articleVars>>
    ELSE IF body.article \notin Ids(articles)
    THEN /\ resp' = WriteResponse("media-files.update", caller, id, 400,
                                  body.uploaded_by)
         /\ UNCHANGED <<userRows, statsReq, showVars, articleVars>>
    ELSE /\ mediaFiles' =
                { IF m.id = id
                  THEN [m EXCEPT
                          !.article = MediaSerializerValidatedData(body).article]
                  ELSE m : m \in mediaFiles }
         /\ resp' = WriteResponse("media-files.update", caller, id, 200,
                                  body.uploaded_by)
         /\ UNCHANGED <<userRows, statsReq, showVars, articles, nextArticleId,
                        nextMediaId>>

\* DELETE /media-files/{id}: ModelViewSet's destroy, open to every
\* authenticated caller
MediaFileDestroy(caller, id) ==
    IF ~IsAuthenticated(caller)
    THEN /\ resp' = WriteResponse("media-files.destroy", caller, id, 401, "")
         /\ UNCHANGED <<userRows, statsReq, showVars, articleVars>>
    ELSE IF \A m \in mediaFiles : m.id # id
    THEN /\ resp' = WriteResponse("media-files.destroy", caller, id, 404, "")
         /\ UNCHANGED <<userRows, statsReq, showVars, articleVars>>
    ELSE /\ mediaFiles' = { m \in mediaFiles : m.id # id }
         /\ resp' = WriteResponse("media-files.destroy", caller, id, 204, "")
         /\ UNCHANGED <<userRows, statsReq, showVars, articles, nextArticleId,
                        nextMediaId>>

\* The store before any article is written
InitArticles ==
    /\ shows = ShowRows(1, [i \in {1} |-> NULL])
    /\ genres = ListGenre
    /\ genreLinks = {}
    /\ statusLogs = {}
    /\ popularity = {}
    /\ spCalls = <<>>
    /\ articles = {}
    /\ nextArticleId = 1
    /\ mediaFiles = {}
    /\ nextMediaId = 1
    /\ userRows = Users
    /\ statsReq = NoRequest
    /\ resp = NoResponse

\* Article create, update and delete requests, in any order
NextArticles ==
    \/ \E caller \in WriteCallers, body \in ArticleBodies :
          ArticleCreate(caller, body)
    \/ \E caller \in WriteCallers, id \in 1..MaxArticles,
          body \in ArticleBodies : ArticleUpdate(caller, id, body)
    \/ \E caller \in WriteCallers, id \in 1..MaxArticles :
          ArticleDestroy(caller, id)

SpecArticles == InitArticles /\ [][NextArticles]_vars

\* Articles published, media files attached and articles deleted, in any
\* order
NextMedia ==
    \/ \E caller \in WriteCallers, body \in PublishedBodies :
          ArticleCreate(caller, body)
    \/ \E caller \in WriteCallers, body \in MediaBodies :
          MediaFileCreate(caller, body)
    \/ \E caller \in WriteCallers, id \in 1..MaxArticles :
          ArticleDestroy(caller, id)

SpecMedia == InitArticles /\ [][NextMedia]_vars

\* An anonymous caller and one Contributor, who fills the store
AccessCallers == {Anonymous, "c1"}

\* Every write request of the article and media-file endpoints, sent by the
\* anonymous caller and by the Contributor, in any order
NextWriteAccess ==
    \/ \E caller \in AccessCallers, body \in PublishedBodies :
          ArticleCreate(caller, body)
    \/ \E caller \in AccessCallers, id \in 1..MaxArticles,
          body \in PublishedBodies : ArticleUpdate(caller, id, body)
    \/ \E caller \in AccessCallers, id \in 1..MaxArticles :
          ArticleDestroy(caller, id)
    \/ \E caller \in AccessCallers, body \in MediaBodies :
          MediaFileCreate(caller, body)
    \/ \E caller \in AccessCallers, id \in 1..MaxMedia, body \in MediaBodies :
          MediaFileUpdate(caller, id, body)
    \/ \E caller \in AccessCallers, id \in 1..MaxMedia :
          MediaFileDestroy(caller, id)

SpecWriteAccess == InitArticles /\ [][NextWriteAccess]_vars

\* ------------------------------------------------------------------------
\* Properties of the article lists
\* ------------------------------------------------------------------------
ArticleListOps ==
    {"articles.list", "articles.my_articles", "categories.articles"}

ArticleById(id) == CHOOSE a \in articles : a.id = id

Unpublished(a) == a.status \in {"draft", "archived"}

\* C1: no list response to an unauthenticated caller (the article listing
\* under any category and show_id filter, a category's article listing)
\* holds a draft or an archived article.
C1_AnonymousSeesNoUnpublished ==
    (resp.op \in ArticleListOps /\ resp.caller = Anonymous) =>
        \A id \in resp.ids : ~Unpublished(ArticleById(id))

\* An anonymous listing that returns a published article and leaves out a
\* draft and an archived one that pass the same filters
C1_Witness ==
    /\ resp.op = "articles.list"
    /\ resp.caller = Anonymous
    /\ resp.params = NoFilters
    /\ resp.ids # {}
    /\ \E a \in articles : a.status = "draft" /\ a.id \notin resp.ids
    /\ \E a \in articles : a.status = "published" /\ a.id \in resp.ids

\* C2: a Contributor's unfiltered listing is exactly the published articles
\* and the caller's own; the caller's own unpublished articles are in the
\* caller's my_articles; no unpublished article of another author is in the
\* caller's listing or my_articles.
C2_ContributorView ==
    (/\ resp.op \in {"articles.list", "articles.my_articles"}
     /\ IsAuthenticated(resp.caller)
     /\ RoleName(resp.caller) = "Contributor") =>
        /\ (resp.op = "articles.list" /\ resp.params = NoFilters) =>
              resp.ids = Ids({ a \in articles :
                                 a.status = "published" \/ a.user = resp.caller })
        /\ (resp.op = "articles.my_articles" /\ resp.params = NoFilters) =>
              \A a \in articles :
                  (a.user = resp.caller /\ Unpublished(a)) => a.id \in resp.ids
        /\ \A a \in articles :
              (a.user # resp.caller /\ Unpublished(a)) => a.id \notin resp.ids

\* c1 asks for my_articles and gets c1's draft; the store also holds a draft
\* by the other Contributor, which is not returned
C2_Witness ==
    /\ resp.op = "articles.my_articles"
    /\ resp.caller = "c1"
    /\ \E a \in articles :
          a.user = "c1" /\ a.status = "draft" /\ a.id \in resp.ids
    /\ \E a \in articles :
          a.user = "c2" /\ a.status = "draft" /\ a.id \notin resp.ids

\* C3: an Admin sees every article, whatever its status and author, in the
\* article listing and in a category's article listing; an authenticated
\* caller who is neither Admin nor Contributor sees only published articles.
C3_RoleVisibility ==
    /\ (/\ resp.op = "articles.list"
        /\ IsAuthenticated(resp.caller)
        /\ RoleName(resp.caller) = "Admin"
        /\ resp.params = NoFilters) => resp.ids = Ids(articles)
    /\ (/\ resp.op = "categories.articles"
        /\ resp.code = 200
        /\ IsAuthenticated(resp.caller)
        /\ RoleName(resp.caller) = "Admin") =>
          resp.ids = Ids({ a \in articles :
                            a.category \in CategoryOfSlug(resp.params.category) })
    /\ (/\ resp.op \in {"articles.list", "categories.articles"}
        /\ IsAuthenticated(resp.caller)
        /\ RoleName(resp.caller) \notin {"Admin", "Contributor"}) =>
          \A id \in resp.ids : ~Unpublished(ArticleById(id))

\* ------------------------------------------------------------------------
\* Properties of the show listing
\* ------------------------------------------------------------------------
\* The show ids returned for ?status=tok with no other filter
StatusResult(tok) ==
    DOMAIN Evaluate(ShowsQueryset([year_from |-> NULL, year_to |-> NULL,
                                   genre |-> <<>>, status |-> tok]))

StatusTokens == {"unknown"} \cup RecoveryStatuses

AllShowIds == { s.show_id : s \in shows }

UnloggedShowIds ==
    { s.show_id : s \in { t \in shows :
                            ~\E l \in statusLogs : l.show_id = t.show_id } }

PlainStatusRequest(r) ==
    /\ r.op = "shows.list"
    /\ r.params.year_from = NULL
    /\ r.params.year_to = NULL
    /\ r.params.genre = <<>>

\* C7: the results of status=unknown, Founded, Fully Lost and Partial Found
\* are pairwise disjoint and together are the full show set, and a
\* status=unknown response holds exactly the shows that have no status log.
C7_StatusPartition ==
    (PlainStatusRequest(resp) /\ resp.params.status \in StatusTokens) =>
        /\ \A b \in StatusTokens \ {resp.params.status} :
              DOMAIN resp.rows \cap StatusResult(b) = {}
        /\ UNION { StatusResult(a) : a \in StatusTokens } = AllShowIds
        /\ resp.params.status = "unknown"
              => DOMAIN resp.rows = UnloggedShowIds

\* A status=unknown response over a store with a logged and an unlogged show
C7_Witness ==
    /\ PlainStatusRequest(resp)
    /\ resp.params.status = "unknown"
    /\ UnloggedShowIds # {}
    /\ UnloggedShowIds # AllShowIds
    /\ DOMAIN resp.rows = UnloggedShowIds

\* C8: whatever the year_from, year_to, genre and status filters, the show
\* list holds each show at most once.
C8_NoDuplicateShows ==
    resp.op = "shows.list" =>
        \A id \in DOMAIN resp.rows : resp.rows[id] = 1

\* genre=comedy&status=unknown on an unlogged show linked to two genres that
\* both match: the show is returned, once
C8_Witness ==
    /\ resp.op = "shows.list"
    /\ resp.params.genre = <<"c","o","m","e","d","y">>
    /\ resp.params.status = "unknown"
    /\ \E s \in shows :
          /\ s.show_id \in UnloggedShowIds
          /\ Cardinality({ l \in genreLinks : l.show_id = s.show_id }) = 2
          /\ s.show_id \in DOMAIN resp.rows
          /\ resp.rows[s.show_id] = 1

\* ------------------------------------------------------------------------
\* MasterShowsViewSet.stats (views.py 150-189)
\* ------------------------------------------------------------------------
RECURSIVE SumOf(_, _)
\* The sum of field f over a set of records
SumOf(S, f) ==
    IF S = {} THEN 0
    ELSE LET x == CHOOSE y \in S : TRUE IN x[f] + SumOf(S \ {x}, f)

\* n/d rounded to the nearest integer, an exact tie going to the even
\* neighbour: Python's round() on a float that holds the tie exactly.  Up to
\* 33 shows a percentage ties only at count/32, which a float holds exactly.
RoundHalfEven(n, d) ==
    LET q == n \div d
        r == n % d
    IN  IF 2 * r < d THEN q
        ELSE IF 2 * r > d THEN q + 1
        ELSE IF q % 2 = 0 THEN q ELSE q + 1

\* round(x, 1) in place of round(x, 2), in hundredths of a percent
PercentageOneDecimal(count, total) ==
    10 * RoundHalfEven(count * 1000, total)

\* round((count / total) * 100, 2), in hundredths of a percent
Percentage(count, total) == RoundHalfEven(count * 10000, total)

\* Every stored status given the count of all the status logs
StatusCountsUngrouped ==
    { [status |-> st, count |-> Cardinality(statusLogs)] :
        st \in { l.recovery_status : l \in statusLogs } }

\* MediaStatusLog.objects.values('recovery_status')
\*     .annotate(count=Count('show_id')): one group per status stored
StatusCounts ==
    { [status |-> st,
       count |-> Cardinality({ l \in statusLogs : l.recovery_status = st })] :
        st \in { l.recovery_status : l \in statusLogs } }

\* The Unknown/Lost bucket appended even when its count is zero
AppendUnknownAlways(unknown_count) == unknown_count >= 0

\* if unknown_count > 0
AppendUnknown(unknown_count) == unknown_count > 0

\* The buckets of status_distribution, each before its percentage is taken
StatusBuckets(total_shows) ==
    LET unknown_count == total_shows - SumOf(StatusCounts, "count")
    IN  StatusCounts \cup
        (IF AppendUnknown(unknown_count)
         THEN { [status |-> "Unknown/Lost", count |-> unknown_count] }
         ELSE {})

\* ShowGenreMapping.objects.values('genre__genre_name')
\*     .annotate(show_count=Count('show_id')): one group per genre name that
\* has a link, show_count the number of link rows of the group
GenreCounts ==
    { [genre__genre_name |-> nm,
       show_count |-> Cardinality({ l \in genreLinks :
                                      GenreName(l.genre_id) = nm })] :
        nm \in { GenreName(l.genre_id) : l \in genreLinks } }

RECURSIVE OrderByAsc(_, _)
\* ORDER BY f ASC
OrderByAsc(S, f) ==
    IF S = {} THEN { <<>> }
    ELSE LET first == { r \in S : \A o \in S : r[f] <= o[f] }
         IN  UNION { { <<r>> \o rest : rest \in OrderByAsc(S \ {r}, f) } :
                       r \in first }

RECURSIVE OrderByDesc(_, _)
\* ORDER BY f DESC over the rows S: every sequence the database may answer,
\* rows of equal f in any order
OrderByDesc(S, f) ==
    IF S = {} THEN { <<>> }
    ELSE LET first == { r \in S : \A o \in S : r[f] >= o[f] }
         IN  UNION { { <<r>> \o rest : rest \in OrderByDesc(S \ {r}, f) } :
                       r \in first }

\* The slice left out: every row is answered
NoLimit(rows, n) == rows

\* [:n] / SELECT TOP n
Limit(rows, n) == SubSeq(rows, 1, IF Len(rows) < n THEN Len(rows) ELSE n)

\* The slice [:10] of genre_stats
TopGenresLimit == 10

\* .order_by('-show_count')[:10]
TopGenres ==
    { Limit(rows, TopGenresLimit) : rows \in OrderByDesc(GenreCounts, "show_count") }

\* GET /shows/stats.  Every bucket divides by total_shows, so a bucket with
\* total_shows = 0 raises ZeroDivisionError and the request fails (500).
StatsResponseFor(total_shows, top_genres) ==
    LET buckets == StatusBuckets(total_shows)
    IN  IF buckets # {} /\ total_shows = 0
        THEN [op |-> "shows.stats", code |-> 500]
        ELSE [op |-> "shows.stats", code |-> 200,
              total_shows |-> total_shows,
              status_distribution |->
                  { [status |-> b.status, count |-> b.count,
                     percentage |-> Percentage(b.count, total_shows)] :
                      b \in buckets },
              top_genres |-> top_genres]

\* The response when no write falls between the queries of the request:
\* total_shows = MasterShows.objects.count() is of the store the other
\* queries read
StatsResponse(top_genres) ==
    StatsResponseFor(Cardinality(shows), top_genres)

Stats ==
    /\ resp = NoResponse
    /\ \E top_genres \in TopGenres : resp' = StatsResponse(top_genres)
    /\ UNCHANGED <<userRows, statsReq, showVars, articleVars>>

\* Stores of n shows of which the first a are Founded, the next b Fully Lost,
\* the next c Partial Found and the rest have no status log: stats only
\* counts, so one store per distribution stands for all of them.
InitStats ==
    /\ \E a \in 0..MaxStatShows :
         \E b \in 0..(MaxStatShows - a) :
           \E c \in 0..(MaxStatShows - a - b) :
             \E d \in 0..(MaxStatShows - a - b - c) :
               /\ shows = ShowRows(a + b + c + d,
                                   [i \in 1..(a + b + c + d) |-> NULL])
               /\ statusLogs = StatusLogRows(a + b + c + d,
                     [i \in 1..(a + b + c + d) |->
                        IF i <= a THEN "Founded"
                        ELSE IF i <= a + b THEN "Fully Lost"
                        ELSE IF i <= a + b + c THEN "Partial Found"
                        ELSE "none"])
    /\ genres = ListGenre
    /\ genreLinks = {}
    /\ popularity = {}
    /\ spCalls = <<>>
    /\ articles = {}
    /\ nextArticleId = 1
    /\ mediaFiles = {}
    /\ nextMediaId = 1
    /\ userRows = Users
    /\ statsReq = NoRequest
    /\ resp = NoResponse

NextStats == Stats

SpecStats == InitStats /\ [][NextStats]_vars

\* ------------------------------------------------------------------------
\* /shows/stats query by query, among writes to the catalogue
\* ------------------------------------------------------------------------
\* The first query of stats: total_shows = MasterShows.objects.count().  No
\* transaction spans the request (ATOMIC_REQUESTS is not set), so each query
\* reads the store as it is when the query runs.
StatsCountShows ==
    /\ statsReq = NoRequest
    /\ statsReq' = [pc |-> "counted", total_shows |-> Cardinality(shows)]
    /\ UNCHANGED <<userRows, showVars, articleVars, resp>>

\* The rest of stats: the status_counts query runs when the loop iterates
\* it, the genre query when the response is built, and the buckets divide by
\* the total_shows counted before
StatsRespond ==
    /\ statsReq.pc = "counted"
    /\ \E top_genres \in TopGenres :
          resp' = StatsResponseFor(statsReq.total_shows, top_genres)
    /\ statsReq' = NoRequest
    /\ UNCHANGED <<userRows, showVars, articleVars>>

\* The integration writes a show into Master_Shows (the table is not managed
\* by the application, which only reads it)
IngestShow(id) ==
    /\ \A s \in shows : s.show_id # id
    /\ shows' = shows \cup { [show_id |-> id, release_year |-> NULL] }
    /\ UNCHANGED <<userRows, genres, genreLinks, statusLogs, popularity, spCalls,
                   articleVars, statsReq, resp>>

\* A status log is added for a show that has none (MediaStatusLogAdmin
\* permits add)
AddStatusLog(id, recovery_status) ==
    /\ \E s \in shows : s.show_id = id
    /\ \A l \in statusLogs : l.show_id # id
    /\ statusLogs' = statusLogs \cup
           { [show_id |-> id, recovery_status |-> recovery_status] }
    /\ UNCHANGED <<userRows, shows, genres, genreLinks, popularity, spCalls,
                   articleVars, statsReq, resp>>

\* A superuser deletes a show (MasterShowsAdmin permits delete): its status
\* log, genre links and popularity row go with it (CASCADE) and the articles
\* about it lose their show (SET_NULL)
DeleteShow(id) ==
    /\ \E s \in shows : s.show_id = id
    /\ shows' = { s \in shows : s.show_id # id }
    /\ statusLogs' = { l \in statusLogs : l.show_id # id }
    /\ genreLinks' = { l \in genreLinks : l.show_id # id }
    /\ popularity' = { r \in popularity : r.id # id }
    /\ articles' = { IF a.show = id THEN [a EXCEPT !.show = NULL] ELSE a :
                       a \in articles }
    /\ UNCHANGED <<userRows, genres, spCalls, nextArticleId, mediaFiles, nextMediaId,
                   statsReq, resp>>

\* Any store of up to MaxShows shows, no stats request begun
InitStatsQueries ==
    /\ \E n \in 0..MaxShows :
         \E logOf \in [1..n -> RecoveryStatuses \cup {"none"}] :
              /\ shows = ShowRows(n, [i \in 1..n |-> NULL])
              /\ statusLogs = StatusLogRows(n, logOf)
    /\ genres = ListGenre
    /\ genreLinks = {}
    /\ popularity = {}
    /\ spCalls = <<>>
    /\ articles = {}
    /\ nextArticleId = 1
    /\ mediaFiles = {}
    /\ nextMediaId = 1
    /\ userRows = Users
    /\ statsReq = NoRequest
    /\ resp = NoResponse

\* Stats requests, one at a time, their queries interleaved with the writes
NextStatsQueries ==
    \/ StatsCountShows
    \/ StatsRespond
    \/ \E id \in 1..MaxShows : IngestShow(id)
    \/ \E id \in 1..MaxShows, st \in RecoveryStatuses : AddStatusLog(id, st)
    \/ \E id \in 1..MaxShows : DeleteShow(id)

SpecStatsQueries == InitStatsQueries /\ [][NextStatsQueries]_vars

\* The names of the genres the stores of the genre statistics hold
CoreGenreNames == { <<"D","r","a","m","a">>, <<"N","e","w","s">> }

\* A genre name of its own for the j-th further genre
FillerGenreName(j) == <<"G">> \o [i \in 1..j |-> "x"]

\* Stores for the genre statistics.  c genre rows draw their names from two
\* names, so that two rows can share one, and are linked to any shows among
\* the first MaxLinkedShows; f further genres, each with a name of its own,
\* the j-th linked to the shows 1..j, make the list of groups long.
InitGenreStats ==
    /\ \E f \in 0..MaxFillerGenres, c \in 0..MaxCoreGenres :
         \E nameOf \in [1..c -> CoreGenreNames],
            linksOf \in [1..c -> SUBSET (1..MaxLinkedShows)] :
              /\ LET n == IF f > MaxLinkedShows THEN f ELSE MaxLinkedShows
                 IN  shows = ShowRows(n, [i \in 1..n |-> NULL])
              /\ genres =
                    { [genre_id |-> i, genre_name |-> nameOf[i]] : i \in 1..c }
                    \cup { [genre_id |-> c + j,
                            genre_name |-> FillerGenreName(j)] : j \in 1..f }
              /\ genreLinks =
                    { [show_id |-> p[2], genre_id |-> p[1]] :
                        p \in { q \in (1..c) \X (1..MaxLinkedShows) :
                                  q[2] \in linksOf[q[1]] } }
                    \cup { [show_id |-> p[2], genre_id |-> c + p[1]] :
                            p \in { q \in (1..f) \X (1..f) : q[2] <= q[1] } }
    /\ statusLogs = {}
    /\ popularity = {}
    /\ spCalls = <<>>
    /\ articles = {}
    /\ nextArticleId = 1
    /\ mediaFiles = {}
    /\ nextMediaId = 1
    /\ userRows = Users
    /\ statsReq = NoRequest
    /\ resp = NoResponse

SpecGenreStats == InitGenreStats /\ [][NextStats]_vars

\* ------------------------------------------------------------------------
\* MasterShowsViewSet.trending (views.py 131-148) and dashboard_stats
\* (views.py 422-465)
\* ------------------------------------------------------------------------
\* SELECT TOP 10 of /shows/trending
TrendingLimit == 10

\* SELECT TOP 5 of the dashboard
DashboardTrendingLimit == 5

\* recent_articles [:5]
RecentArticlesLimit == 5

\* FROM dbo.Master_Shows AS ms JOIN dbo.MediaPopularity AS mp
\*     ON ms.Show_ID = mp.ID: one row per show that has a popularity row
TrendingJoin ==
    { [show_id |-> x[1].show_id, Title |-> x[1].title,
       ReleaseYear |-> x[1].release_year, SearchCount |-> x[2].search_count] :
        x \in { y \in shows \X popularity : y[1].show_id = y[2].id } }

\* SELECT ms.Title, ms.ReleaseYear, mp.SearchCount
SelectColumns(rows) ==
    [i \in 1..Len(rows) |->
        [Title |-> rows[i].Title, ReleaseYear |-> rows[i].ReleaseYear,
         SearchCount |-> rows[i].SearchCount]]

\* SELECT TOP n ... ORDER BY mp.SearchCount DESC
TopTrending(n) ==
    { SelectColumns(Limit(rows, n)) :
        rows \in OrderByDesc(TrendingJoin, "SearchCount") }

\* GET /shows/trending, open to every caller
Trending ==
    /\ resp = NoResponse
    /\ \E rows \in TopTrending(TrendingLimit) :
          resp' = [op |-> "shows.trending", code |-> 200, trending |-> rows]
    /\ UNCHANGED <<userRows, statsReq, showVars, articleVars>>

\* @permission_classes([IsAuthenticated])
DashboardPermission(caller) == IsAuthenticated(caller)

\* Article.objects.filter(status='published')
PublishedArticles == { a \in articles : a.status = "published" }

\* recent_articles: the published articles in Meta.ordering, -created_at,
\* which is the order of the id sequence reversed, cut to 5; their ids stand
\* for the serialized articles
RecentArticles ==
    { [i \in 1..Len(Limit(rows, RecentArticlesLimit)) |-> rows[i].id] :
        rows \in OrderByDesc(PublishedArticles, "id") }

\* GET /dashboard/stats
DashboardStats(caller) ==
    /\ resp = NoResponse
    /\ IF ~DashboardPermission(caller)
       THEN resp' = [op |-> "dashboard.stats", caller |-> caller, code |-> 401]
       ELSE \E trending \in TopTrending(DashboardTrendingLimit),
               recent_articles \in RecentArticles :
              resp' = [op |-> "dashboard.stats", caller |-> caller,
                       code |-> 200,
                       total_shows |-> Cardinality(shows),
                       total_articles |-> Cardinality(PublishedArticles),
                       total_users |-> Cardinality(Users),
                       status_distribution |-> StatusCounts,
                       recent_articles |-> recent_articles,
                       trending_media |-> trending]
    /\ UNCHANGED <<userRows, statsReq, showVars, articleVars>>

\* Stores for the rankings.  c shows have one of two titles and either no
\* popularity row or one with any search count up to MaxSearchCount; f
\* further shows, the j-th searched j times, make the ranking long.  No
\* articles or MaxArticles of them, the first published.
InitTrending ==
    /\ \E f \in 0..MaxFillerShows, c \in 0..MaxRankedShows :
         \E titleOf \in [1..c -> Titles \ {<<"b">>}],
            countOf \in [1..c -> {NULL} \cup (0..MaxSearchCount)] :
              /\ shows = TitledShowRows(c + f,
                                        [i \in 1..(c + f) |-> NULL],
                                        [i \in 1..(c + f) |->
                                            IF i <= c THEN titleOf[i]
                                                      ELSE <<"b">>])
              /\ popularity =
                    { [id |-> i, search_count |-> countOf[i]] :
                        i \in { k \in 1..c : countOf[k] # NULL } }
                    \cup { [id |-> c + j, search_count |-> j] : j \in 1..f }
    /\ genres = ListGenre
    /\ genreLinks = {}
    /\ statusLogs = {}
    /\ spCalls = <<>>
    /\ \E n \in {0, MaxArticles} :
          /\ articles = ArticleRows(n,
                [i \in 1..n |->
                    [status |-> IF i = 1 THEN "published" ELSE "draft",
                     user |-> "c1", category |-> 1, show |-> NULL]])
          /\ nextArticleId = n + 1
    /\ mediaFiles = {}
    /\ nextMediaId = 1
    /\ userRows = Users
    /\ statsReq = NoRequest
    /\ resp = NoResponse

NextTrending ==
    \/ Trending
    \/ \E caller \in Callers : DashboardStats(caller)

SpecTrending == InitTrending /\ [][NextTrending]_vars

\* ------------------------------------------------------------------------
\* simple_search (views.py 194-218)
\* ------------------------------------------------------------------------
\* request.GET: the query string as a set of <<name, value>> pairs
QueryStrings == { {}, { <<"q", "">> }, { <<"q", "lost">> }, { <<"q", " ">> } }

\* QueryDict.get(key, default)
Get(query, key, default) ==
    IF \E p \in query : p[1] = key
    THEN (CHOOSE p \in query : p[1] = key)[2]
    ELSE default

\* The rows SP_Search_By_Keyword can answer: the procedure is external, so
\* any list of up to MaxResults rows
ResultRows == {"row1", "row2"}
SearchResults == UNION { [1..k -> ResultRows] : k \in 0..MaxResults }

\* The keyword check left out
KeywordNeverMissing(keyword) == FALSE

\* if not keyword
KeywordMissing(keyword) == keyword = ""

\* GET /search/?q=...
SimpleSearch(query) ==
    LET keyword == Get(query, "q", "")
    IN  IF KeywordMissing(keyword)
        THEN /\ resp' = [op |-> "search.simple", query |-> query,
                         code |-> 400,
                         error |-> "Parameter \"q\" is required"]
             /\ UNCHANGED <<userRows, statsReq, showVars, articleVars>>
        ELSE /\ Len(spCalls) < MaxSpCalls
             /\ spCalls' = Append(spCalls, keyword)
             /\ \E results \in SearchResults :
                   resp' = [op |-> "search.simple", query |-> query,
                            code |-> 200,
                            count |-> Len(results), results |-> results]
             /\ UNCHANGED <<userRows, shows, genres, genreLinks, statusLogs,
                            popularity, articleVars, statsReq>>

InitSearch ==
    /\ shows = ShowRows(1, [i \in {1} |-> NULL])
    /\ genres = ListGenre
    /\ genreLinks = {}
    /\ statusLogs = {}
    /\ popularity = {}
    /\ spCalls = <<>>
    /\ articles = {}
    /\ nextArticleId = 1
    /\ mediaFiles = {}
    /\ nextMediaId = 1
    /\ userRows = Users
    /\ statsReq = NoRequest
    /\ resp = NoResponse

NextSearch == \E query \in QueryStrings : SimpleSearch(query)

SpecSearch == InitSearch /\ [][NextSearch]_vars

\* ------------------------------------------------------------------------
\* Properties of /shows/stats
\* ------------------------------------------------------------------------
StatsOk == resp.op = "shows.stats" /\ resp.code = 200

\* The sum of the percentages of a 200 response, in hundredths of a percent
PercentageSum == SumOf(resp.status_distribution, "percentage")

Abs(x) == IF x < 0 THEN -x ELSE x

\* C9 as claimed: with total_shows > 0 the rounded percentages sum to within
\* 0.01 of 100.
C9_SumWithinOneHundredth ==
    (StatsOk /\ resp.total_shows > 0) => Abs(PercentageSum - 10000) <= 1

\* C9 as amended: with total_shows > 0 the rounded percentages of the at most
\* four buckets sum to within 0.02 of 100.
C9_SumWithinTwoHundredths ==
    (StatsOk /\ resp.total_shows > 0) =>
        /\ Cardinality(resp.status_distribution) <= 4
        /\ Abs(PercentageSum - 10000) <= 2

\* A response whose percentages are 0.02 away from 100
C9_Witness ==
    /\ StatsOk
    /\ resp.total_shows > 0
    /\ Abs(PercentageSum - 10000) = 2

\* C10: with no shows in the store the stats request succeeds, having divided
\* by nothing, and its status distribution is empty.
C10_EmptyStoreStats ==
    (resp.op = "shows.stats" /\ shows = {}) =>
        /\ resp.code = 200
        /\ resp.total_shows = 0
        /\ resp.status_distribution = {}

\* The stats response over the empty store
C10_Witness ==
    /\ StatsOk
    /\ shows = {}
    /\ resp.status_distribution = {}

\* The shows whose status log holds status st
ShowsWithStatus(st) ==
    { s \in shows : \E l \in statusLogs :
          l.show_id = s.show_id /\ l.recovery_status = st }

\* The buckets of the response that stand for a stored status
StoredStatusBuckets ==
    { b \in resp.status_distribution : b.status \in RecoveryStatuses }

\* pct, in hundredths of a percent, is count/total*100 rounded to 2 decimals:
\* no other multiple of 0.01 is nearer to the quotient
RoundedPercentage(pct, count, total) ==
    2 * Abs(pct * total - count * 10000) <= total

\* C11: the status distribution has one bucket per stored status, whose count
\* is the number of shows with that status, an Unknown/Lost bucket counting
\* total_shows minus the sum of the status-group counts exactly when that
\* count is not zero, and every percentage is count/total_shows*100 rounded
\* to 2 decimals.
C11_StatusDistribution ==
    StatsOk =>
        LET dist == resp.status_distribution
            unknown == resp.total_shows - SumOf(StoredStatusBuckets, "count")
        IN  /\ resp.total_shows = Cardinality(shows)
            /\ \A b \in dist : b.status \in RecoveryStatuses \cup {"Unknown/Lost"}
            /\ \A b1, b2 \in dist : b1.status = b2.status => b1 = b2
            /\ \A st \in RecoveryStatuses :
                   (\E b \in dist : b.status = st) <=> ShowsWithStatus(st) # {}
            /\ \A b \in StoredStatusBuckets :
                   b.count = Cardinality(ShowsWithStatus(b.status))
            /\ (\E b \in dist : b.status = "Unknown/Lost") <=> unknown # 0
            /\ \A b \in dist : b.status = "Unknown/Lost" => b.count = unknown
            /\ \A b \in dist :
                   RoundedPercentage(b.percentage, b.count, resp.total_shows)

\* 5 shows, 2 Founded, 1 Fully Lost and 2 without a log: 2/40.0, 1/20.0 and
\* Unknown/Lost 2/40.0
C11_Witness ==
    /\ StatsOk
    /\ Cardinality(shows) = 5
    /\ resp.status_distribution =
           { [status |-> "Founded", count |-> 2, percentage |-> 4000],
             [status |-> "Fully Lost", count |-> 1, percentage |-> 2000],
             [status |-> "Unknown/Lost", count |-> 2, percentage |-> 4000] }

\* C21: whatever writes fall between the queries of a stats request, in its
\* response the bucket counts sum to the reported total_shows, no count is
\* negative and no percentage exceeds 100.
C21_StatsSingleRead ==
    StatsOk =>
        /\ SumOf(resp.status_distribution, "count") = resp.total_shows
        /\ \A b \in resp.status_distribution :
               /\ b.count >= 0
               /\ b.percentage <= 10000

\* The genre names that have a genre link
LinkedGenreNames == { GenreName(l.genre_id) : l \in genreLinks }

\* C12: the top_genres list has at most 10 entries, in non-increasing order
\* of show_count.
C12_TopGenresBounded ==
    StatsOk =>
        /\ Len(resp.top_genres) <= 10
        /\ \A i \in 1..(Len(resp.top_genres) - 1) :
               resp.top_genres[i].show_count >= resp.top_genres[i + 1].show_count

\* More than 10 genre names are linked, and the list holds 10 entries whose
\* counts fall from the first to the last
C12_Witness ==
    /\ StatsOk
    /\ Cardinality(LinkedGenreNames) > 10
    /\ Len(resp.top_genres) = 10
    /\ resp.top_genres[1].show_count > resp.top_genres[10].show_count

\* The distinct shows linked to a genre named nm
ShowsOfGenreName(nm) ==
    { l.show_id : l \in { k \in genreLinks : GenreName(k.genre_id) = nm } }

\* C13: every top_genres entry stands for one genre name, no two for the
\* same, and its show_count is the number of distinct shows linked to a genre
\* of that name.
C13_DistinctShowCount ==
    StatsOk =>
        /\ \A i, j \in 1..Len(resp.top_genres) :
               resp.top_genres[i].genre__genre_name =
                   resp.top_genres[j].genre__genre_name => i = j
        /\ \A i \in 1..Len(resp.top_genres) :
               LET e == resp.top_genres[i]
               IN  /\ e.genre__genre_name \in LinkedGenreNames
                   /\ e.show_count =
                          Cardinality(ShowsOfGenreName(e.genre__genre_name))

\* ------------------------------------------------------------------------
\* Properties of the rankings and the dashboard
\* ------------------------------------------------------------------------
\* The shows that have a popularity row
RankedShows == { s \in shows : \E p \in popularity : p.id = s.show_id }

SearchCountOf(s) == (CHOOSE p \in popularity : p.id = s.show_id).search_count

Min(a, b) == IF a < b THEN a ELSE b

\* list holds the n most searched of the ranked shows, or all of them when
\* they are fewer, most searched first: of the shows searched v times it
\* holds as many as there are places left after the shows searched more
TopRanked(list, n) ==
    /\ Len(list) <= n
    /\ Len(list) = Min(n, Cardinality(RankedShows))
    /\ \A i \in 1..(Len(list) - 1) :
           list[i].SearchCount >= list[i + 1].SearchCount
    /\ \A i \in 1..Len(list) :
           \E s \in RankedShows :
              list[i] = [Title |-> s.title, ReleaseYear |-> s.release_year,
                         SearchCount |-> SearchCountOf(s)]
    /\ \A v \in { p.search_count : p \in popularity } :
           LET held == Cardinality({ i \in 1..Len(list) :
                                       list[i].SearchCount = v })
               same == Cardinality({ s \in RankedShows :
                                       SearchCountOf(s) = v })
               more == Cardinality({ s \in RankedShows :
                                       SearchCountOf(s) > v })
           IN  held = Min(same, IF more >= n THEN 0 ELSE n - more)

\* C14: the trending list of /shows/trending holds the 10, and the
\* trending_media of the dashboard the 5, most searched shows among those
\* with a popularity row, never more, in non-increasing order of
\* search_count.
C14_TopTrending ==
    /\ resp.op = "shows.trending" => TopRanked(resp.trending, 10)
    /\ (resp.op = "dashboard.stats" /\ resp.code = 200) =>
           TopRanked(resp.trending_media, 5)

\* More than 10 shows are ranked, one show has no popularity row, and the
\* trending list holds 10 of them, the first searched more than the last
C14_Witness ==
    /\ resp.op = "shows.trending"
    /\ Cardinality(RankedShows) > 10
    /\ RankedShows # shows
    /\ Len(resp.trending) = 10
    /\ resp.trending[1].SearchCount > resp.trending[10].SearchCount

DashboardData ==
    {"total_shows", "total_articles", "total_users", "status_distribution",
     "recent_articles", "trending_media"}

\* C16: an unauthenticated request to the dashboard is rejected and its
\* response holds none of the totals, the status distribution, the recent
\* articles or the trending list.
C16_DashboardNeedsAuthentication ==
    (resp.op = "dashboard.stats" /\ ~IsAuthenticated(resp.caller)) =>
        /\ resp.code \in {401, 403}
        /\ DOMAIN resp \cap DashboardData = {}

\* An anonymous request to the dashboard of a store with shows, rankings
\* and a published article is answered 401
C16_Witness ==
    /\ resp.op = "dashboard.stats"
    /\ resp.caller = Anonymous
    /\ resp.code = 401
    /\ RankedShows # {}
    /\ PublishedArticles # {}

\* ------------------------------------------------------------------------
\* Properties of the simple search
\* ------------------------------------------------------------------------
\* The step answers a simple search whose q is missing or empty
SearchWithoutKeyword ==
    /\ resp'.op = "search.simple"
    /\ resp'.query \in { {}, { <<"q", "">> } }

\* The step answers a simple search with q = kw
SearchWithKeyword(kw) ==
    /\ resp'.op = "search.simple"
    /\ resp'.query = { <<"q", kw>> }

\* C15: a simple search whose q is missing or empty is answered 400 and does
\* not execute the keyword procedure; one with a non-empty q executes it once
\* with that keyword and is answered 200 with count the number of result
\* items.
C15_SimpleSearchKeyword ==
    [][/\ SearchWithoutKeyword =>
             /\ resp'.code = 400
             /\ spCalls' = spCalls
        /\ \A kw \in {"lost", " "} :
             SearchWithKeyword(kw) =>
                 /\ spCalls' = Append(spCalls, kw)
                 /\ resp'.code = 200
                 /\ resp'.count = Len(resp'.results)]_vars

\* After one search with a keyword that returned two rows, a search with an
\* empty q has been answered 400 and the procedure has run once
C15_Witness ==
    /\ resp.op = "search.simple"
    /\ resp.query = { <<"q", "">> }
    /\ resp.code = 400
    /\ spCalls = << "lost" >>

\* ------------------------------------------------------------------------
\* Properties of the article writes
\* ------------------------------------------------------------------------
\* C4: an article enters the store with the creating caller as its author,
\* whatever user the request body names, and no later step changes the
\* author of a stored article.
C4_AuthorIsCreator ==
    [][\A a \in articles' :
          IF a.id \in Ids(articles)
          THEN a.user = ArticleById(a.id).user
          ELSE /\ resp'.op = "articles.create"
               /\ a.user = resp'.caller]_vars

\* An Admin has updated a Contributor's article with a body that names the
\* Admin as user, and the article still has its author
C4_Witness ==
    /\ resp.op = "articles.update"
    /\ resp.code = 200
    /\ resp.caller = "admin"
    /\ resp.body_user = "admin"
    /\ resp.id \in Ids(articles)
    /\ ArticleById(resp.id).user = "c2"

\* The step answers request op on article a, which the caller can retrieve,
\* and the caller is authenticated and neither a's author nor an Admin
ForeignWrite(op, a) ==
    /\ resp'.op = op
    /\ resp'.id = a.id
    /\ IsAuthenticated(resp'.caller)
    /\ a.user # resp'.caller
    /\ RoleName(resp'.caller) # "Admin"
    /\ VisibleTo(resp'.caller, a)

\* C5: an update of an article by an authenticated caller who is neither its
\* author nor an Admin is answered 403 and leaves the stored article as it
\* was (stated for the articles the caller can retrieve).
C5_ForeignUpdateIs403 ==
    [][\A a \in articles :
          ForeignWrite("articles.update", a) =>
              /\ resp'.code = 403
              /\ articles' = articles]_vars

\* C6: a DELETE of an article by an authenticated caller who is neither its
\* author nor an Admin is answered 403, and the article and its media files
\* stay in the store (stated for the articles the caller can retrieve).
C6_ForeignDeleteIs403 ==
    [][\A a \in articles :
          ForeignWrite("articles.destroy", a) =>
              /\ resp'.code = 403
              /\ a \in articles'
              /\ MediaOf(a.id) \subseteq mediaFiles']_vars

\* ------------------------------------------------------------------------
\* Properties of the media files
\* ------------------------------------------------------------------------
\* C17: every stored media file references exactly one stored article, and
\* the deletion of an article removes the media files attached to it and no
\* others.
C17_MediaBelongsToArticle ==
    /\ [](\A m \in mediaFiles :
             Cardinality({ a \in articles : a.id = m.article }) = 1)
    /\ [][(resp'.op = "articles.destroy" /\ resp'.code = 204) =>
             /\ resp'.id \notin Ids(articles')
             /\ mediaFiles' =
                    { m \in mediaFiles : m.article # resp'.id }]_vars

\* An article that had a media file has been deleted while another article
\* had one too: the other article's media file is the only one left
C17_Witness ==
    /\ resp.op = "articles.destroy"
    /\ resp.code = 204
    /\ nextMediaId = 3
    /\ Cardinality(mediaFiles) = 1
    /\ \A m \in mediaFiles : m.article \in Ids(articles) \ {resp.id}

\* C18: a media file enters the store with the creating caller as its
\* uploader, whatever uploader the request body names.
C18_UploaderIsCreator ==
    [][(resp'.op = "media-files.create" /\ resp'.code = 201) =>
          /\ IsAuthenticated(resp'.caller)
          /\ \E m \in mediaFiles' \ mediaFiles :
                /\ mediaFiles' = mediaFiles \cup {m}
                /\ m.id = resp'.id
                /\ m.uploaded_by = resp'.caller]_vars

\* Contributor c1 has created a media file with a body that names the Admin
\* as uploader, and the stored uploader is c1
C18_Witness ==
    /\ resp.op = "media-files.create"
    /\ resp.code = 201
    /\ resp.caller = "c1"
    /\ resp.body_user = "admin"
    /\ \E m \in mediaFiles : m.id = resp.id /\ m.uploaded_by = "c1"

\* ------------------------------------------------------------------------
\* Properties of the ordering and the year range of the show list
\* ------------------------------------------------------------------------
ShowOfId(id) == CHOOSE s \in shows : s.show_id = id

\* How often id occurs in the list
Occurrences(results, id) ==
    Cardinality({ i \in 1..Len(results) : results[i] = id })

\* The shows of the list whose release year is known are in the order of
\* their release years, descending or ascending
SortedByYear(results, descending) ==
    \A i, j \in 1..Len(results) :
       LET yi == ShowOfId(results[i]).release_year
           yj == ShowOfId(results[j]).release_year
       IN  (i < j /\ yi # NULL /\ yj # NULL) =>
               IF descending THEN yi >= yj ELSE yi <= yj

\* No show of the list is followed by one whose title sorts before its own
\* (after its own, when descending)
SortedByTitle(results, descending) ==
    \A i, j \in 1..Len(results) :
       LET ti == ShowOfId(results[i]).title
           tj == ShowOfId(results[j]).title
       IN  i < j => IF descending THEN ~TitleLess(ti, tj)
                                  ELSE ~TitleLess(tj, ti)

\* C19: a show list requested with one ordering key holds the shows of the
\* result, each as often as the result does, sorted by that key in the
\* requested direction when the key is release_year or title, with or
\* without '-', and by descending release year when it is any other key.
C19_OrderingKey ==
    (resp.op = "shows.list" /\ Len(resp.params.ordering) = 1) =>
        LET term == resp.params.ordering[1]
        IN  /\ \A id \in AllShowIds :
                   Occurrences(resp.results, id) =
                       IF id \in DOMAIN resp.rows THEN resp.rows[id] ELSE 0
            /\ CASE term = <<"title">> ->
                       SortedByTitle(resp.results, FALSE)
                  [] term = <<"-", "title">> ->
                       SortedByTitle(resp.results, TRUE)
                  [] term = <<"release_year">> ->
                       SortedByYear(resp.results, FALSE)
                  [] term = <<"-", "release_year">> ->
                       SortedByYear(resp.results, TRUE)
                  [] OTHER -> SortedByYear(resp.results, TRUE)

\* ordering=show_id on three shows whose ids ascend with their release
\* years: the list is in descending order of release year, the ids falling
C19_Witness ==
    /\ resp.op = "shows.list"
    /\ resp.params.ordering = << <<"show_id">> >>
    /\ Len(resp.results) = 3
    /\ resp.results[1] > resp.results[2]
    /\ resp.results[2] > resp.results[3]
    /\ ShowOfId(resp.results[1]).release_year
          > ShowOfId(resp.results[2]).release_year
    /\ ShowOfId(resp.results[3]).release_year = NULL

\* The shows whose release year is known and within the bounds that are
\* given
ShowsWithinYears(year_from, year_to) ==
    { s.show_id : s \in
        { t \in shows :
            /\ year_from # NULL =>
                  (t.release_year # NULL /\ t.release_year >= year_from)
            /\ year_to # NULL =>
                  (t.release_year # NULL /\ t.release_year <= year_to) } }

\* C20: with no other filter, the show list holds exactly the shows whose
\* release_year is >= year_from, when given, and <= year_to, when given: a
\* show on a bound is in the list, and a show without a release year is in
\* it only when neither bound is given.
C20_YearRangeInclusive ==
    (resp.op = "shows.list" /\ resp.params.genre = <<>>
        /\ resp.params.status = "") =>
        DOMAIN resp.rows =
            ShowsWithinYears(resp.params.year_from, resp.params.year_to)

\* year_from=2&year_to=2 over a show of the year 1, one of the year 2 and
\* one without a year: the list holds the show of the year 2 alone
C20_Witness ==
    /\ resp.op = "shows.list"
    /\ resp.params.year_from = 2
    /\ resp.params.year_to = 2
    /\ { s.release_year : s \in shows } = {NULL, 1, 2}
    /\ Cardinality(DOMAIN resp.rows) = 1
    /\ \A id \in DOMAIN resp.rows : ShowOfId(id).release_year = 2

\* ------------------------------------------------------------------------
\* Properties of the unauthenticated writes
\* ------------------------------------------------------------------------
WriteOps ==
    {"articles.create", "articles.update", "articles.destroy",
     "media-files.create", "media-files.update", "media-files.destroy"}

\* C22: every create, update or delete request that the anonymous caller
\* sends to the article or media-file endpoints is rejected, and the articles
\* and media files are after it what they were before.
C22_AnonymousWritesRejected ==
    [][(resp'.op \in WriteOps /\ resp'.caller = Anonymous) =>
          /\ resp'.code \in {401, 403}
          /\ articles' = articles
          /\ mediaFiles' = mediaFiles]_vars

\* The anonymous caller has asked for the deletion of a stored article that
\* has a media file: the answer is 401 and both are still stored
C22_Witness ==
    /\ resp.op = "articles.destroy"
    /\ resp.caller = Anonymous
    /\ resp.code = 401
    /\ resp.id \in Ids(articles)
    /\ MediaOf(resp.id) # {}

\* ------------------------------------------------------------------------
\* Properties of the user endpoints
\* ------------------------------------------------------------------------
UserOps == {"users.list", "users.retrieve", "users.me"}

\* C23: the response of a user endpoint holds no user record for the
\* anonymous caller, who is rejected; no record but the caller's own for an
\* authenticated caller who is not an Admin, whose list is that one record;
\* and the list of an Admin holds every stored user.
C23_UserVisibility ==
    resp.op \in UserOps =>
        /\ resp.caller = Anonymous =>
               /\ resp.code \in {401, 403}
               /\ resp.users = {}
        /\ (resp.caller \in Users /\ RoleName(resp.caller) # "Admin") =>
               /\ resp.users \subseteq {resp.caller}
               /\ resp.op = "users.list" => resp.users = {resp.caller}
        /\ (resp.caller \in Users /\ RoleName(resp.caller) = "Admin"
               /\ resp.op = "users.list") =>
               /\ resp.code = 200
               /\ resp.users = userRows

\* Contributor c1 has asked for the record of the Admin, who is stored, and
\* got none
C23_Witness ==
    /\ resp.op = "users.retrieve"
    /\ resp.caller = "c1"
    /\ resp.id = "admin"
    /\ "admin" \in userRows
    /\ resp.code = 404
    /\ resp.users = {}

====
